---- MODULE Spec2Model ----
(***************************************************************************)
(* Ventilation controller firmware (Raspberry_PicoW/main.ino).             *)
(*                                                                         *)
(* One microcontroller, one execution context: setup() runs once after     *)
(* power-on, then loop() serves one HTTP request at a time to completion.  *)
(* Text is modelled as a sequence of one-character strings so that the     *)
(* firmware's own scanning of request text (indexOf, substring, trim,      *)
(* toInt) is computed, not assumed.  Indices are 0-based as in the code.   *)
(***************************************************************************)
EXTENDS Integers, Sequences, FiniteSets, TLC

VARIABLES
    pc,                \* position of the single execution context
    settings,          \* struct Settings in RAM
    eeprom,            \* the Settings record held in flash at offset 0
    relayLowState,     \* bool relayLowState
    relayMediumState,  \* bool relayMediumState
    currentAngle,      \* int currentAngle
    isVentActive,      \* bool isVentActive
    ventSpeed,         \* String ventSpeed
    pinLow,            \* level driven on relayPinLow
    pinMedium,         \* level driven on relayPinMedium
    servoAngle,        \* angle last given to servo.write, -1 before any
    req,               \* request being served, or served last
    resp,              \* response sent last
    hw,                \* hardware commands issued since the last dispatch
    before,            \* machine state when the request in req was dispatched
    repeat,            \* req is the same request as the one served before it
    preLoss,           \* calibration and speed at the last power loss, kept
                       \* until the first request after it
    bypassed           \* relays, actuator or calibration were changed by a
                       \* request other than a speed command since the last
                       \* speed command moved the actuator

vars == <<pc, settings, eeprom, relayLowState, relayMediumState, currentAngle,
          isVentActive, ventSpeed, pinLow, pinMedium, servoAngle, req, resp,
          hw, before, repeat, preLoss, bypassed>>

---------------------------------------------------------------------------
(* Text: Arduino String operations used by the firmware.                   *)

Digits == <<"0", "1", "2", "3", "4", "5", "6", "7", "8", "9">>

IsDigit(c) == \E d \in 1..10 : Digits[d] = c

DigitVal(c) == (CHOOSE d \in 1..10 : Digits[d] = c) - 1

isspace(c) == c \in {" ", "\t", "\n", "\r"}

RECURSIVE NatToStr(_)
NatToStr(n) ==
    IF n < 10 THEN <<Digits[n + 1]>>
    ELSE NatToStr(n \div 10) \o <<Digits[(n % 10) + 1]>>

\* String(int): decimal rendering
IntToStr(n) == IF n < 0 THEN <<"-">> \o NatToStr(0 - n) ELSE NatToStr(n)

\* String(b ? "true" : "false")
BoolToStr(b) == IF b THEN "true" ELSE "false"

RECURSIVE SkipSpace(_, _)
SkipSpace(s, i) ==
    IF i <= Len(s) /\ isspace(s[i]) THEN SkipSpace(s, i + 1) ELSE i

RECURSIVE ParseDigits(_, _, _)
ParseDigits(s, i, acc) ==
    IF i <= Len(s) /\ IsDigit(s[i])
    THEN ParseDigits(s, i + 1, acc * 10 + DigitVal(s[i]))
    ELSE acc

\* String::toInt: atol of the buffer; leading white space, an optional sign,
\* then digits up to the first other character; 0 when there is no digit.
toInt(s) ==
    LET i == SkipSpace(s, 1)
        signed == i <= Len(s) /\ s[i] \in {"-", "+"}
        v == ParseDigits(s, IF signed THEN i + 1 ELSE i, 0)
    IN  IF signed /\ s[i] = "-" THEN 0 - v ELSE v

MatchesAt(s, pat, i) ==
    /\ i + Len(pat) <= Len(s)
    /\ \A k \in 1..Len(pat) : s[i + k] = pat[k]

\* String::indexOf(pat, from): first 0-based position >= from, or -1
indexOf(s, pat, from) ==
    LET hits == {i \in from..(Len(s) - Len(pat)) : MatchesAt(s, pat, i)}
    IN  IF from >= Len(s) \/ hits = {} THEN 0 - 1
        ELSE CHOOSE i \in hits : \A j \in hits : i <= j

\* String::substring(left, right): characters left .. right-1
substring(s, left, right) ==
    LET l == IF left > right THEN right ELSE left
        r0 == IF left > right THEN left ELSE right
        r == IF r0 > Len(s) THEN Len(s) ELSE r0
    IN  IF l >= Len(s) THEN <<>> ELSE SubSeq(s, l + 1, r)

RECURSIVE TrimLeft(_)
TrimLeft(s) ==
    IF s # <<>> /\ isspace(Head(s)) THEN TrimLeft(Tail(s)) ELSE s

RECURSIVE TrimRight(_)
TrimRight(s) ==
    IF s # <<>> /\ isspace(s[Len(s)])
    THEN TrimRight(SubSeq(s, 1, Len(s) - 1)) ELSE s

\* String::trim
trim(s) == TrimRight(TrimLeft(s))

---------------------------------------------------------------------------
(* Clients: the texts a request can carry.                                 *)

KeyOpen == <<"\"", "a", "n", "g", "l", "e", "O", "p", "e", "n", "\"", ":">>

KeyClose ==
    <<"\"", "a", "n", "g", "l", "e", "C", "l", "o", "s", "e", "\"", ":">>

KeyPark == <<"\"", "a", "n", "g", "l", "e", "P", "a", "r", "k", "\"", ":">>

\* JSON.stringify of {angleOpen, angleClose, anglePark}; o, c, p are the
\* rendered values
JSONstringify(o, c, p) ==
    <<"{">> \o KeyOpen \o o \o <<",">> \o KeyClose \o c \o <<",">>
            \o KeyPark \o p \o <<"}">>

\* a JSON number, as sent by a client that follows the documented API
Num(n) == IntToStr(n)

\* a JSON string, as sent by the built-in page (input.value is a string)
Quoted(n) == <<"\"">> \o IntToStr(n) \o <<"\"">>

\* calibration triples a client may try to save
SaveTriples ==
    { <<170, 5, 40>>, <<170, 0 - 1, 40>>, <<200, 5, 40>>, <<170, 5, 181>> }

NumberBody(t) ==
    [path |-> "/settings/save", has |-> TRUE,
     text |-> JSONstringify(Num(t[1]), Num(t[2]), Num(t[3]))]

PageBody(t) ==
    [path |-> "/settings/save", has |-> TRUE,
     text |-> JSONstringify(Quoted(t[1]), Quoted(t[2]), Quoted(t[3]))]

\* bodies that lack a field, hold a field that is no number, or hold no
\* field at all
MalformedBodies ==
    { <<"{">> \o KeyOpen \o Num(170) \o <<",">> \o KeyClose \o Num(5)
             \o <<"}">>,
      <<"{">> \o KeyOpen \o <<"a", "b", "c">> \o <<",">> \o KeyClose
             \o Num(5) \o <<",">> \o KeyPark \o Num(40) \o <<"}">>,
      <<"{", "}">> }

SaveRequests ==
    {NumberBody(t) : t \in SaveTriples}
    \cup {PageBody(<<170, 5, 40>>)}
    \cup {[path |-> "/settings/save", has |-> TRUE, text |-> b] :
             b \in MalformedBodies}
    \cup {[path |-> "/settings/save", has |-> FALSE, text |-> <<>>]}

\* angles a client may ask /servo/set for
AngleInputs == {0 - 1, 0, 90, 180, 181, 200}

ServoRequests ==
    {[path |-> "/servo/set", has |-> TRUE, text |-> IntToStr(n)] :
        n \in AngleInputs}
    \cup {[path |-> "/servo/set", has |-> TRUE, text |-> <<"a", "b", "c">>],
          [path |-> "/servo/set", has |-> FALSE, text |-> <<>>]}

PlainPaths ==
    {"/", "/relay/toggle", "/vent/low", "/vent/medium", "/vent/max",
     "/vent/off", "/status"}

PlainRequests == {[path |-> p, has |-> FALSE, text |-> <<>>] : p \in PlainPaths}

Requests == PlainRequests \cup ServoRequests \cup SaveRequests

NoReq == [path |-> "none", has |-> FALSE, text |-> <<>>]

NoResp == [code |-> 0, body |-> "none", json |-> <<>>]

\* raw words flash may hold at first power-on: erased (all bits set),
\* written by an earlier firmware, or out of range
EepromImages ==
    { [angleOpen |-> 0 - 1, angleClose |-> 0 - 1, anglePark |-> 0 - 1],
      [angleOpen |-> 170, angleClose |-> 5, anglePark |-> 40],
      [angleOpen |-> 200, angleClose |-> 5, anglePark |-> 300] }

---------------------------------------------------------------------------
(* Calibration store.                                                      *)

\* variant: one bad field makes the whole record fall back to the defaults
loadSettingsFromEEPROM_allOrNothing(e) ==
    IF \/ e.angleOpen < 0 \/ e.angleOpen > 180
       \/ e.angleClose < 0 \/ e.angleClose > 180
       \/ e.anglePark < 0 \/ e.anglePark > 180
    THEN [angleOpen |-> 180, angleClose |-> 0, anglePark |-> 32]
    ELSE e

\* variant: the record is taken from flash as it is
loadSettingsFromEEPROM_unchecked(e) == e

\* loadSettingsFromEEPROM: EEPROM.get, then each field outside [0,180] is
\* replaced by its default
loadSettingsFromEEPROM(e) ==
    [angleOpen  |-> IF e.angleOpen < 0 \/ e.angleOpen > 180
                    THEN 180 ELSE e.angleOpen,
     angleClose |-> IF e.angleClose < 0 \/ e.angleClose > 180
                    THEN 0 ELSE e.angleClose,
     anglePark  |-> IF e.anglePark < 0 \/ e.anglePark > 180
                    THEN 32 ELSE e.anglePark]

\* variant: EEPROM.put without EEPROM.commit, flash keeps what it held
saveSettingsToEEPROM_nocommit(s) == eeprom

\* saveSettingsToEEPROM: EEPROM.put(0, settings); EEPROM.commit()
saveSettingsToEEPROM(s) == s

\* flash after a commit of record new over record old that power loss cut
\* short: each word is the old one, the new one, or erased
TornWrites(old, new) ==
    [angleOpen  : {old.angleOpen, new.angleOpen, 0 - 1},
     angleClose : {old.angleClose, new.angleClose, 0 - 1},
     anglePark  : {old.anglePark, new.anglePark, 0 - 1}]

---------------------------------------------------------------------------
(* Machine state and the hardware commands.                                *)

\* the globals as the C++ runtime initialises them, lines 20-31
ZeroSettings == [angleOpen |-> 0, angleClose |-> 0, anglePark |-> 0]

Machine ==
    [settings |-> settings, eeprom |-> eeprom,
     relayLowState |-> relayLowState, relayMediumState |-> relayMediumState,
     currentAngle |-> currentAngle, isVentActive |-> isVentActive,
     ventSpeed |-> ventSpeed, pinLow |-> pinLow, pinMedium |-> pinMedium,
     servoAngle |-> servoAngle]

PowerOnMachine(e) ==
    [settings |-> ZeroSettings, eeprom |-> e,
     relayLowState |-> FALSE, relayMediumState |-> FALSE,
     currentAngle |-> 0, isVentActive |-> FALSE,
     ventSpeed |-> "off", pinLow |-> "INPUT", pinMedium |-> "INPUT",
     servoAngle |-> 0 - 1]

NoLoss == [quiescent |-> FALSE, settings |-> ZeroSettings, ventSpeed |-> "off"]

servoWrite(a) == [op |-> "servo.write", angle |-> a]

digitalWrite(pin, level) ==
    [op |-> "digitalWrite", pin |-> pin, level |-> level]

delay(ms) == [op |-> "delay", ms |-> ms]

commit(s) == [op |-> "EEPROM.commit", record |-> s]

send(code) == [op |-> "server.send", code |-> code]

\* the JSON object handleStatus renders from machine state m
StatusOf(m) ==
    [ventActive |-> BoolToStr(m.isVentActive),
     ventSpeed |-> m.ventSpeed,
     relayLow |-> BoolToStr(m.relayLowState),
     relayMedium |-> BoolToStr(m.relayMediumState),
     currentAngle |-> IntToStr(m.currentAngle),
     settings |-> [angleOpen  |-> IntToStr(m.settings.angleOpen),
                   angleClose |-> IntToStr(m.settings.angleClose),
                   anglePark  |-> IntToStr(m.settings.anglePark)]]

\* what GET /status answers in the current state
StatusJson == StatusOf(Machine)

---------------------------------------------------------------------------
(* Power and boot.                                                         *)

Init ==
    /\ eeprom \in EepromImages
    /\ pc = "setup"
    /\ settings = ZeroSettings
    /\ relayLowState = FALSE
    /\ relayMediumState = FALSE
    /\ currentAngle = 0
    /\ isVentActive = FALSE
    /\ ventSpeed = "off"
    /\ pinLow = "INPUT"
    /\ pinMedium = "INPUT"
    /\ servoAngle = 0 - 1
    /\ req = NoReq
    /\ resp = NoResp
    /\ hw = <<>>
    /\ before = PowerOnMachine(eeprom)
    /\ repeat = FALSE
    /\ preLoss = NoLoss
    /\ bypassed = FALSE

\* Power is lost and comes back: RAM and outputs are reset, flash is kept.
\* A loss while saveSettingsToEEPROM is committing may tear the record.
PowerCycle ==
    /\ eeprom' \in (IF pc = "save_commit"
                    THEN TornWrites(eeprom, settings) \cup {eeprom}
                    ELSE {eeprom})
    /\ preLoss' = [quiescent |-> pc = "idle", settings |-> settings,
                    ventSpeed |-> ventSpeed]
    /\ pc' = "setup"
    /\ settings' = ZeroSettings
    /\ relayLowState' = FALSE
    /\ relayMediumState' = FALSE
    /\ currentAngle' = 0
    /\ isVentActive' = FALSE
    /\ ventSpeed' = "off"
    /\ pinLow' = "INPUT"
    /\ pinMedium' = "INPUT"
    /\ servoAngle' = 0 - 1
    /\ req' = NoReq
    /\ resp' = NoResp
    /\ hw' = <<>>
    /\ before' = PowerOnMachine(eeprom')
    /\ repeat' = FALSE
    /\ bypassed' = FALSE

\* setup(), up to the call of startupSequence: load the calibration, drive
\* both relay pins high
setup_begin ==
    /\ pc = "setup"
    /\ settings' = loadSettingsFromEEPROM(eeprom)
    /\ pinLow' = "HIGH"
    /\ pinMedium' = "HIGH"
    /\ hw' = hw \o <<digitalWrite("relayPinLow", "HIGH"),
                     digitalWrite("relayPinMedium", "HIGH")>>
    /\ pc' = "startup"
    /\ UNCHANGED <<eeprom, relayLowState, relayMediumState, currentAngle,
                   isVentActive, ventSpeed, servoAngle, req, resp, before,
                   repeat, preLoss, bypassed>>

\* variant: the last write of the sequence is not recorded in currentAngle
startupSequence_noRecord ==
    /\ \/ /\ pc = "startup"
          /\ servoAngle' = settings.angleOpen
          /\ hw' = hw \o <<servoWrite(settings.angleOpen), delay(1000)>>
          /\ pc' = "startup_opened"
       \/ /\ pc = "startup_opened"
          /\ servoAngle' = settings.angleClose
          /\ hw' = hw \o <<servoWrite(settings.angleClose), delay(2000)>>
          /\ pc' = "startup_closed"
       \/ /\ pc = "startup_closed"
          /\ servoAngle' = settings.anglePark
          /\ hw' = hw \o <<servoWrite(settings.anglePark)>>
          /\ pc' = "network"
    /\ UNCHANGED <<settings, eeprom, relayLowState, relayMediumState,
                   isVentActive, ventSpeed, pinLow, pinMedium, req, resp,
                   before, repeat, preLoss, bypassed, currentAngle>>

\* startupSequence(): open, wait, close, wait, park
startupSequence ==
    /\ \/ /\ pc = "startup"
          /\ servoAngle' = settings.angleOpen
          /\ hw' = hw \o <<servoWrite(settings.angleOpen), delay(1000)>>
          /\ pc' = "startup_opened"
          /\ UNCHANGED currentAngle
       \/ /\ pc = "startup_opened"
          /\ servoAngle' = settings.angleClose
          /\ hw' = hw \o <<servoWrite(settings.angleClose), delay(2000)>>
          /\ pc' = "startup_closed"
          /\ UNCHANGED currentAngle
       \/ /\ pc = "startup_closed"
          /\ servoAngle' = settings.anglePark
          /\ currentAngle' = settings.anglePark
          /\ hw' = hw \o <<servoWrite(settings.anglePark)>>
          /\ pc' = "network"
    /\ UNCHANGED <<settings, eeprom, relayLowState, relayMediumState,
                   isVentActive, ventSpeed, pinLow, pinMedium, req, resp,
                   before, repeat, preLoss, bypassed>>

\* setup(), after startupSequence: WiFi, mDNS, routes, server.begin()
setup_network ==
    /\ pc = "network"
    /\ pc' = "idle"
    /\ UNCHANGED <<settings, eeprom, relayLowState, relayMediumState,
                   currentAngle, isVentActive, ventSpeed, pinLow, pinMedium,
                   servoAngle, req, resp, hw, before, repeat, preLoss,
                   bypassed>>

\* variant: a request is also taken while a handler sits in its delay
Dispatch_reentrant(R) ==
    /\ pc \in {"idle", "settle"}
    /\ \E r \in R :
         /\ req' = r
         /\ repeat' = (r = req)
    /\ before' = Machine
    /\ hw' = <<>>
    /\ preLoss' = NoLoss
    /\ pc' = "handler"
    /\ UNCHANGED <<settings, eeprom, relayLowState, relayMediumState,
                   currentAngle, isVentActive, ventSpeed, pinLow, pinMedium,
                   servoAngle, resp, bypassed>>

\* server.handleClient() takes the next request, one of R, and calls its
\* handler
Dispatch(R) ==
    /\ pc = "idle"
    /\ \E r \in R :
         /\ req' = r
         /\ repeat' = (r = req)
    /\ before' = Machine
    /\ hw' = <<>>
    /\ preLoss' = NoLoss
    /\ pc' = "handler"
    /\ UNCHANGED <<settings, eeprom, relayLowState, relayMediumState,
                   currentAngle, isVentActive, ventSpeed, pinLow, pinMedium,
                   servoAngle, resp, bypassed>>

\* loop(), with any client
loop == Dispatch(Requests)

---------------------------------------------------------------------------
(* Request handlers.  Each runs from its dispatch to its server.send.      *)

Serving(path) == pc = "handler" /\ req.path = path

Plain(code, body) == [code |-> code, body |-> body, json |-> <<>>]

handleRoot ==
    /\ Serving("/")
    /\ resp' = Plain(200, "webPage")
    /\ hw' = hw \o <<send(200)>>
    /\ pc' = "idle"
    /\ UNCHANGED <<settings, eeprom, relayLowState, relayMediumState,
                   currentAngle, isVentActive, ventSpeed, pinLow, pinMedium,
                   servoAngle, req, before, repeat, preLoss, bypassed>>

\* variant: the relays are flipped, the speed bookkeeping is left alone
handleRelayToggle_noBookkeeping ==
    /\ Serving("/relay/toggle")
    /\ IF relayLowState \/ relayMediumState
       THEN /\ pinLow' = "HIGH"
            /\ pinMedium' = "HIGH"
            /\ relayLowState' = FALSE
            /\ relayMediumState' = FALSE
            /\ isVentActive' = FALSE
            /\ hw' = hw \o <<digitalWrite("relayPinLow", "HIGH"),
                             digitalWrite("relayPinMedium", "HIGH"),
                             send(200)>>
       ELSE /\ pinLow' = "LOW"
            /\ pinMedium' = "LOW"
            /\ relayLowState' = TRUE
            /\ relayMediumState' = TRUE
            /\ isVentActive' = TRUE
            /\ hw' = hw \o <<digitalWrite("relayPinLow", "LOW"),
                             digitalWrite("relayPinMedium", "LOW"),
                             send(200)>>
    /\ resp' = Plain(200, IF relayLowState' \/ relayMediumState'
                          THEN "1" ELSE "0")
    /\ pc' = "idle"
    /\ bypassed' = TRUE
    /\ UNCHANGED <<settings, eeprom, currentAngle, servoAngle, req, before,
                   repeat, preLoss, ventSpeed>>

\* variant: both relays must be on for the toggle to switch them off
handleRelayToggle_and ==
    /\ Serving("/relay/toggle")
    /\ IF relayLowState /\ relayMediumState
       THEN /\ pinLow' = "HIGH"
            /\ pinMedium' = "HIGH"
            /\ relayLowState' = FALSE
            /\ relayMediumState' = FALSE
            /\ ventSpeed' = "off"
            /\ isVentActive' = FALSE
            /\ hw' = hw \o <<digitalWrite("relayPinLow", "HIGH"),
                             digitalWrite("relayPinMedium", "HIGH"),
                             send(200)>>
       ELSE /\ pinLow' = "LOW"
            /\ pinMedium' = "LOW"
            /\ relayLowState' = TRUE
            /\ relayMediumState' = TRUE
            /\ ventSpeed' = "max"
            /\ isVentActive' = TRUE
            /\ hw' = hw \o <<digitalWrite("relayPinLow", "LOW"),
                             digitalWrite("relayPinMedium", "LOW"),
                             send(200)>>
    /\ resp' = Plain(200, IF relayLowState' \/ relayMediumState'
                          THEN "1" ELSE "0")
    /\ pc' = "idle"
    /\ bypassed' = TRUE
    /\ UNCHANGED <<settings, eeprom, currentAngle, servoAngle, req, before,
                   repeat, preLoss>>

\* flips both relays together: off when either is on, else both on
handleRelayToggle ==
    /\ Serving("/relay/toggle")
    /\ IF relayLowState \/ relayMediumState
       THEN /\ pinLow' = "HIGH"
            /\ pinMedium' = "HIGH"
            /\ relayLowState' = FALSE
            /\ relayMediumState' = FALSE
            /\ ventSpeed' = "off"
            /\ isVentActive' = FALSE
            /\ hw' = hw \o <<digitalWrite("relayPinLow", "HIGH"),
                             digitalWrite("relayPinMedium", "HIGH"),
                             send(200)>>
       ELSE /\ pinLow' = "LOW"
            /\ pinMedium' = "LOW"
            /\ relayLowState' = TRUE
            /\ relayMediumState' = TRUE
            /\ ventSpeed' = "max"
            /\ isVentActive' = TRUE
            /\ hw' = hw \o <<digitalWrite("relayPinLow", "LOW"),
                             digitalWrite("relayPinMedium", "LOW"),
                             send(200)>>
    /\ resp' = Plain(200, IF relayLowState' \/ relayMediumState'
                          THEN "1" ELSE "0")
    /\ pc' = "idle"
    /\ bypassed' = TRUE
    /\ UNCHANGED <<settings, eeprom, currentAngle, servoAngle, req, before,
                   repeat, preLoss>>

\* the angle handleServoSet reads: server.arg("angle").toInt()
angleArg(r) == toInt(r.text)

\* variant: the upper limit is not tested
validAngle_noUpper(angle) == angle >= 0

\* the range test of handleServoSet
validAngle(angle) == angle >= 0 /\ angle <= 180

\* variant: the angle is recorded but the actuator is not commanded
handleServoSet_noWrite ==
    /\ Serving("/servo/set")
    /\ IF req.has
       THEN IF validAngle(angleArg(req))
            THEN /\ currentAngle' = angleArg(req)
                 /\ resp' = Plain(200, "OK")
                 /\ hw' = hw \o <<send(200)>>
                 /\ bypassed' = TRUE
                 /\ UNCHANGED servoAngle
            ELSE /\ resp' = Plain(400, "Invalid angle")
                 /\ hw' = hw \o <<send(400)>>
                 /\ UNCHANGED <<servoAngle, currentAngle, bypassed>>
       ELSE /\ resp' = Plain(400, "Missing angle parameter")
            /\ hw' = hw \o <<send(400)>>
            /\ UNCHANGED <<servoAngle, currentAngle, bypassed>>
    /\ pc' = "idle"
    /\ UNCHANGED <<settings, eeprom, relayLowState, relayMediumState,
                   isVentActive, ventSpeed, pinLow, pinMedium, req, before,
                   repeat, preLoss>>

\* variant: raw positioning also marks the ventilation active
handleServoSet_marksActive ==
    /\ Serving("/servo/set")
    /\ IF req.has
       THEN IF validAngle(angleArg(req))
            THEN /\ servoAngle' = angleArg(req)
                 /\ currentAngle' = angleArg(req)
                 /\ isVentActive' = TRUE
                 /\ resp' = Plain(200, "OK")
                 /\ hw' = hw \o <<servoWrite(angleArg(req)), send(200)>>
                 /\ bypassed' = TRUE
            ELSE /\ resp' = Plain(400, "Invalid angle")
                 /\ hw' = hw \o <<send(400)>>
                 /\ UNCHANGED <<servoAngle, currentAngle, isVentActive,
                                bypassed>>
       ELSE /\ resp' = Plain(400, "Missing angle parameter")
            /\ hw' = hw \o <<send(400)>>
            /\ UNCHANGED <<servoAngle, currentAngle, isVentActive,
                                bypassed>>
    /\ pc' = "idle"
    /\ UNCHANGED <<settings, eeprom, relayLowState, relayMediumState,
                   ventSpeed, pinLow, pinMedium, req, before, repeat, preLoss>>

handleServoSet ==
    /\ Serving("/servo/set")
    /\ IF req.has
       THEN IF validAngle(angleArg(req))
            THEN /\ servoAngle' = angleArg(req)
                 /\ currentAngle' = angleArg(req)
                 /\ resp' = Plain(200, "OK")
                 /\ hw' = hw \o <<servoWrite(angleArg(req)), send(200)>>
                 /\ bypassed' = TRUE
            ELSE /\ resp' = Plain(400, "Invalid angle")
                 /\ hw' = hw \o <<send(400)>>
                 /\ UNCHANGED <<servoAngle, currentAngle, bypassed>>
       ELSE /\ resp' = Plain(400, "Missing angle parameter")
            /\ hw' = hw \o <<send(400)>>
            /\ UNCHANGED <<servoAngle, currentAngle, bypassed>>
    /\ pc' = "idle"
    /\ UNCHANGED <<settings, eeprom, relayLowState, relayMediumState,
                   isVentActive, ventSpeed, pinLow, pinMedium, req, before,
                   repeat, preLoss>>

\* variant: the low relay is switched on before the actuator is commanded
OpenDamper_relayFirst(speed) ==
    /\ ventSpeed' = speed
    /\ isVentActive' = TRUE
    /\ pinLow' = "LOW"
    /\ relayLowState' = TRUE
    /\ servoAngle' = settings.angleOpen
    /\ currentAngle' = settings.angleOpen
    /\ hw' = hw \o <<digitalWrite("relayPinLow", "LOW"),
                     servoWrite(settings.angleOpen)>>
    /\ pc' = "relays"
    /\ bypassed' = FALSE
    /\ UNCHANGED <<settings, eeprom, relayMediumState, pinMedium, req, resp,
                   before, repeat, preLoss>>

\* variant: the actuator is commanded but currentAngle is not recorded
OpenDamper_noAngle(speed) ==
    /\ ventSpeed' = speed
    /\ isVentActive' = TRUE
    /\ servoAngle' = settings.angleOpen
    /\ hw' = hw \o <<servoWrite(settings.angleOpen)>>
    /\ pc' = "relays"
    /\ bypassed' = FALSE
    /\ UNCHANGED <<settings, eeprom, relayLowState, relayMediumState, pinLow,
                   pinMedium, req, resp, before, repeat, preLoss, currentAngle>>

\* the first half of handleVentLow, handleVentMedium and handleVentMax:
\* bookkeeping, then the actuator is sent to the open angle
OpenDamper(speed) ==
    /\ ventSpeed' = speed
    /\ isVentActive' = TRUE
    /\ servoAngle' = settings.angleOpen
    /\ currentAngle' = settings.angleOpen
    /\ hw' = hw \o <<servoWrite(settings.angleOpen)>>
    /\ pc' = "relays"
    /\ bypassed' = FALSE
    /\ UNCHANGED <<settings, eeprom, relayLowState, relayMediumState, pinLow,
                   pinMedium, req, resp, before, repeat, preLoss>>

\* variant: the pins are driven as for an active-high relay board
SetRelays_activeHigh(low, medium) ==
    /\ pinLow' = (IF low THEN "HIGH" ELSE "LOW")
    /\ pinMedium' = (IF medium THEN "HIGH" ELSE "LOW")
    /\ relayLowState' = low
    /\ relayMediumState' = medium
    /\ resp' = Plain(200, "OK")
    /\ hw' = hw \o <<digitalWrite("relayPinLow", IF low THEN "HIGH" ELSE "LOW"),
                     digitalWrite("relayPinMedium",
                                  IF medium THEN "HIGH" ELSE "LOW"),
                     send(200)>>
    /\ pc' = "idle"
    /\ UNCHANGED <<settings, eeprom, currentAngle, isVentActive, ventSpeed,
                   servoAngle, req, before, repeat, preLoss, bypassed>>

\* variant: a requested relay is flipped instead of switched on
SetRelays_toggle(low, medium) ==
    /\ pinLow' = (IF low /\ ~relayLowState THEN "LOW" ELSE "HIGH")
    /\ pinMedium' = (IF medium /\ ~relayMediumState THEN "LOW" ELSE "HIGH")
    /\ relayLowState' = (low /\ ~relayLowState)
    /\ relayMediumState' = (medium /\ ~relayMediumState)
    /\ resp' = Plain(200, "OK")
    /\ hw' = hw \o <<digitalWrite("relayPinLow", pinLow'),
                     digitalWrite("relayPinMedium", pinMedium'),
                     send(200)>>
    /\ pc' = "idle"
    /\ UNCHANGED <<settings, eeprom, currentAngle, isVentActive, ventSpeed,
                   servoAngle, req, before, repeat, preLoss, bypassed>>

\* the second half: both relay pins are written, then the request is answered
SetRelays(low, medium) ==
    /\ pinLow' = (IF low THEN "LOW" ELSE "HIGH")
    /\ pinMedium' = (IF medium THEN "LOW" ELSE "HIGH")
    /\ relayLowState' = low
    /\ relayMediumState' = medium
    /\ resp' = Plain(200, "OK")
    /\ hw' = hw \o <<digitalWrite("relayPinLow", IF low THEN "LOW" ELSE "HIGH"),
                     digitalWrite("relayPinMedium",
                                  IF medium THEN "LOW" ELSE "HIGH"),
                     send(200)>>
    /\ pc' = "idle"
    /\ UNCHANGED <<settings, eeprom, currentAngle, isVentActive, ventSpeed,
                   servoAngle, req, before, repeat, preLoss, bypassed>>

handleVentLow ==
    \/ /\ Serving("/vent/low")
       /\ OpenDamper("low")
    \/ /\ pc = "relays"
       /\ req.path = "/vent/low"
       /\ SetRelays(TRUE, FALSE)

handleVentMedium ==
    \/ /\ Serving("/vent/medium")
       /\ OpenDamper("medium")
    \/ /\ pc = "relays"
       /\ req.path = "/vent/medium"
       /\ SetRelays(FALSE, TRUE)

handleVentMax ==
    \/ /\ Serving("/vent/max")
       /\ OpenDamper("max")
    \/ /\ pc = "relays"
       /\ req.path = "/vent/max"
       /\ SetRelays(TRUE, TRUE)

\* variant: the relay pins are left as they are while the damper closes
CloseDamper_keepsRelays ==
    /\ isVentActive' = FALSE
    /\ ventSpeed' = "off"
    /\ servoAngle' = settings.angleClose
    /\ currentAngle' = settings.angleClose
    /\ hw' = hw \o <<servoWrite(settings.angleClose), delay(2000)>>
    /\ pc' = "settle"
    /\ bypassed' = FALSE
    /\ UNCHANGED <<settings, eeprom, req, resp, before, repeat, preLoss,
                   pinLow, pinMedium, relayLowState, relayMediumState>>

\* variant: the request is answered as soon as the damper is sent to the
\* close angle, the park command is left for later
CloseDamper_answersEarly ==
    /\ isVentActive' = FALSE
    /\ ventSpeed' = "off"
    /\ pinLow' = "HIGH"
    /\ pinMedium' = "HIGH"
    /\ relayLowState' = FALSE
    /\ relayMediumState' = FALSE
    /\ servoAngle' = settings.angleClose
    /\ currentAngle' = settings.angleClose
    /\ resp' = Plain(200, "OK")
    /\ hw' = hw \o <<digitalWrite("relayPinLow", "HIGH"),
                     digitalWrite("relayPinMedium", "HIGH"),
                     servoWrite(settings.angleClose), send(200),
                     delay(2000)>>
    /\ pc' = "settle"
    /\ bypassed' = FALSE
    /\ UNCHANGED <<settings, eeprom, req, before, repeat, preLoss>>

\* the first half of handleVentOff: bookkeeping, both relays off, the
\* actuator to the close angle, then delay(2000) begins
CloseDamper ==
    /\ isVentActive' = FALSE
    /\ ventSpeed' = "off"
    /\ pinLow' = "HIGH"
    /\ pinMedium' = "HIGH"
    /\ relayLowState' = FALSE
    /\ relayMediumState' = FALSE
    /\ servoAngle' = settings.angleClose
    /\ currentAngle' = settings.angleClose
    /\ hw' = hw \o <<digitalWrite("relayPinLow", "HIGH"),
                     digitalWrite("relayPinMedium", "HIGH"),
                     servoWrite(settings.angleClose), delay(2000)>>
    /\ pc' = "settle"
    /\ bypassed' = FALSE
    /\ UNCHANGED <<settings, eeprom, req, resp, before, repeat, preLoss>>

\* variant: the settle wait never ends
ParkDamper_stuck ==
    /\ pc' = "settle"
    /\ UNCHANGED <<settings, eeprom, relayLowState, relayMediumState,
                   isVentActive, ventSpeed, pinLow, pinMedium, req, resp, hw,
                   before, repeat, preLoss, bypassed, servoAngle, currentAngle>>

\* variant: the request is answered with the damper left at the close angle
ParkDamper_noPark ==
    /\ resp' = Plain(200, "OK")
    /\ hw' = hw \o <<send(200)>>
    /\ pc' = "idle"
    /\ UNCHANGED <<settings, eeprom, relayLowState, relayMediumState,
                   isVentActive, ventSpeed, pinLow, pinMedium, req, before,
                   repeat, preLoss, bypassed, servoAngle, currentAngle>>

\* the second half, once the delay is over: the actuator to the park angle,
\* then the request is answered
ParkDamper ==
    /\ servoAngle' = settings.anglePark
    /\ currentAngle' = settings.anglePark
    /\ resp' = Plain(200, "OK")
    /\ hw' = hw \o <<servoWrite(settings.anglePark), send(200)>>
    /\ pc' = "idle"
    /\ UNCHANGED <<settings, eeprom, relayLowState, relayMediumState,
                   isVentActive, ventSpeed, pinLow, pinMedium, req, before,
                   repeat, preLoss, bypassed>>

handleVentOff ==
    \/ /\ Serving("/vent/off")
       /\ CloseDamper
    \/ /\ pc = "settle"
       /\ ParkDamper

handleStatus ==
    /\ Serving("/status")
    /\ resp' = [code |-> 200, body |-> "json", json |-> StatusJson]
    /\ hw' = hw \o <<send(200)>>
    /\ pc' = "idle"
    /\ UNCHANGED <<settings, eeprom, relayLowState, relayMediumState,
                   currentAngle, isVentActive, ventSpeed, pinLow, pinMedium,
                   servoAngle, req, before, repeat, preLoss, bypassed>>

\* one field of handleSettingsSave: find the key, step `skip` characters on,
\* cut up to the next delimiter, trim, toInt; the old value stays when the
\* key or the delimiter is missing or the number is outside [0,180]
ScanField(json, key, skip, delim, old) ==
    LET startPos == indexOf(json, key, 0)
    IN  IF startPos = 0 - 1 THEN old
        ELSE LET endPos == indexOf(json, delim, startPos + skip)
             IN  IF endPos = 0 - 1 THEN old
                 ELSE LET value ==
                            toInt(trim(substring(json, startPos + skip, endPos)))
                      IN  IF value >= 0 /\ value <= 180 THEN value ELSE old

newAngleOpen(json, s) == ScanField(json, KeyOpen, 11, <<",">>, s.angleOpen)

newAngleClose(json, s) == ScanField(json, KeyClose, 12, <<",">>, s.angleClose)

newAnglePark(json, s) == ScanField(json, KeyPark, 11, <<"}">>, s.anglePark)

\* the record handleSettingsSave is about to apply
newSettings(json, s) ==
    [angleOpen  |-> newAngleOpen(json, s),
     angleClose |-> newAngleClose(json, s),
     anglePark  |-> newAnglePark(json, s)]

\* the final test of handleSettingsSave
allValid(n) ==
    /\ n.angleOpen >= 0 /\ n.angleOpen <= 180
    /\ n.angleClose >= 0 /\ n.angleClose <= 180
    /\ n.anglePark >= 0 /\ n.anglePark <= 180

\* variant: an accepted save moves the damper to the new open angle when a
\* speed is active
handleSettingsSave_reapplies ==
    /\ \/ /\ Serving("/settings/save")
          /\ IF req.has
             THEN IF allValid(newSettings(req.text, settings))
                  THEN /\ settings' = newSettings(req.text, settings)
                       /\ bypassed' = TRUE
                       /\ pc' = "save_commit"
                       /\ UNCHANGED <<resp, hw>>
                  ELSE /\ resp' = Plain(400, "Invalid angle values")
                       /\ hw' = hw \o <<send(400)>>
                       /\ pc' = "idle"
                       /\ UNCHANGED <<settings, bypassed>>
             ELSE /\ resp' = Plain(400, "No data received")
                  /\ hw' = hw \o <<send(400)>>
                  /\ pc' = "idle"
                  /\ UNCHANGED <<settings, bypassed>>
          /\ UNCHANGED <<eeprom, currentAngle, servoAngle>>
       \/ /\ pc = "save_commit"
          /\ eeprom' = saveSettingsToEEPROM(settings)
          /\ resp' = Plain(200, "OK")
          /\ IF isVentActive
             THEN /\ servoAngle' = settings.angleOpen
                  /\ currentAngle' = settings.angleOpen
                  /\ hw' = hw \o <<commit(settings),
                                   servoWrite(settings.angleOpen), send(200)>>
             ELSE /\ hw' = hw \o <<commit(settings), send(200)>>
                  /\ UNCHANGED <<currentAngle, servoAngle>>
          /\ pc' = "idle"
          /\ UNCHANGED <<settings, bypassed>>
    /\ UNCHANGED <<relayLowState, relayMediumState, isVentActive, ventSpeed,
                   pinLow, pinMedium, req, before, repeat, preLoss>>

handleSettingsSave ==
    /\ \/ /\ Serving("/settings/save")
          /\ IF req.has
             THEN IF allValid(newSettings(req.text, settings))
                  THEN /\ settings' = newSettings(req.text, settings)
                       /\ bypassed' = TRUE
                       /\ pc' = "save_commit"
                       /\ UNCHANGED <<resp, hw>>
                  ELSE /\ resp' = Plain(400, "Invalid angle values")
                       /\ hw' = hw \o <<send(400)>>
                       /\ pc' = "idle"
                       /\ UNCHANGED <<settings, bypassed>>
             ELSE /\ resp' = Plain(400, "No data received")
                  /\ hw' = hw \o <<send(400)>>
                  /\ pc' = "idle"
                  /\ UNCHANGED <<settings, bypassed>>
          /\ UNCHANGED eeprom
       \/ /\ pc = "save_commit"
          /\ eeprom' = saveSettingsToEEPROM(settings)
          /\ resp' = Plain(200, "OK")
          /\ hw' = hw \o <<commit(settings), send(200)>>
          /\ pc' = "idle"
          /\ UNCHANGED <<settings, bypassed>>
    /\ UNCHANGED <<relayLowState, relayMediumState, currentAngle,
                   isVentActive, ventSpeed, pinLow, pinMedium, servoAngle,
                   req, before, repeat, preLoss>>

---------------------------------------------------------------------------

Next ==
    \/ PowerCycle
    \/ setup_begin
    \/ startupSequence
    \/ setup_network
    \/ loop
    \/ handleRoot
    \/ handleRelayToggle
    \/ handleServoSet
    \/ handleVentLow
    \/ handleVentMedium
    \/ handleVentMax
    \/ handleVentOff
    \/ handleStatus
    \/ handleSettingsSave

Spec == Init /\ [][Next]_vars

\* the handler that server.handleClient() called: nothing else runs until it
\* returns, and every statement of it, delay(2000) included, returns
Execute ==
    \/ handleRoot
    \/ handleRelayToggle
    \/ handleServoSet
    \/ handleVentLow
    \/ handleVentMedium
    \/ handleVentMax
    \/ handleVentOff
    \/ handleStatus
    \/ handleSettingsSave

\* one request of each kind, accepted and refused; the accepted save is the
\* one with an empty object for a body
LiveRequests ==
    PlainRequests
    \cup {[path |-> "/servo/set", has |-> TRUE, text |-> IntToStr(90)],
          [path |-> "/servo/set", has |-> TRUE, text |-> IntToStr(200)],
          [path |-> "/settings/save", has |-> TRUE, text |-> <<"{", "}">>],
          [path |-> "/settings/save", has |-> FALSE, text |-> <<>>]}

\* loop(), with a client that sends these
loop_live == Dispatch(LiveRequests)

LiveNext ==
    \/ PowerCycle
    \/ setup_begin
    \/ startupSequence
    \/ setup_network
    \/ loop_live
    \/ Execute

\* the program as it is scheduled: a handler that was called keeps running
LiveSpec == Init /\ [][LiveNext]_vars /\ WF_vars(Execute)

---------------------------------------------------------------------------
(* Properties.                                                             *)

\* a request with this path has been served to its answer and nothing has
\* run since
Answered(path) == pc = "idle" /\ req.path = path

SpeedOf(path) ==
    CASE path = "/vent/low" -> "low"
      [] path = "/vent/medium" -> "medium"
      [] path = "/vent/max" -> "max"

AngleInRange(v) == v \in 0..180

TripleInRange(t) == \A i \in 1..3 : AngleInRange(t[i])

Commanded(log) == {i \in DOMAIN log : log[i].op = "servo.write"}

\* C1: once /vent/low, /vent/medium or /vent/max has been answered, /status
\* reports ventActive true, ventSpeed the requested speed, currentAngle the
\* calibration's open angle, and the relay bits of that speed (low: on/off,
\* medium: off/on, max: on/on).
C1_SpeedCommandStatus ==
    \A path \in {"/vent/low", "/vent/medium", "/vent/max"} :
        Answered(path) =>
            /\ resp = Plain(200, "OK")
            /\ StatusJson.ventActive = "true"
            /\ StatusJson.ventSpeed = SpeedOf(path)
            /\ StatusJson.currentAngle = IntToStr(settings.angleOpen)
            /\ StatusJson.relayLow
                 = (IF path = "/vent/medium" THEN "false" ELSE "true")
            /\ StatusJson.relayMedium
                 = (IF path = "/vent/low" THEN "false" ELSE "true")

\* /vent/medium answered, coming from max with the damper moved by hand
C1_Witness ==
    /\ Answered("/vent/medium")
    /\ before.ventSpeed = "max"
    /\ before.currentAngle # settings.angleOpen
    /\ StatusJson.relayLow = "false"

\* C2: once /vent/off has been answered, whatever the state it was issued
\* in, active is false, speed is off, both relays are de-energized and
\* currentAngle is the calibration's park angle.
C2_OffFromAnyState ==
    Answered("/vent/off") =>
        /\ resp = Plain(200, "OK")
        /\ isVentActive = FALSE
        /\ ventSpeed = "off"
        /\ relayLowState = FALSE
        /\ relayMediumState = FALSE
        /\ pinLow = "HIGH"
        /\ pinMedium = "HIGH"
        /\ currentAngle = settings.anglePark
        /\ servoAngle = settings.anglePark

\* /vent/off answered, issued with both relays on and the damper not open
C2_Witness ==
    /\ Answered("/vent/off")
    /\ before.relayLowState
    /\ before.relayMediumState
    /\ before.currentAngle # before.settings.angleOpen
    /\ before.currentAngle # settings.anglePark

\* C3: a /settings/save carrying a calibration whose fields all lie in
\* [0,180], once answered, is followed by a /status that shows exactly
\* those three values under settings.
C3_SaveRoundTrip ==
    \A t \in SaveTriples :
        (TripleInRange(t) /\ Answered("/settings/save") /\ req = NumberBody(t))
        => StatusJson.settings = [angleOpen  |-> IntToStr(t[1]),
                                  angleClose |-> IntToStr(t[2]),
                                  anglePark  |-> IntToStr(t[3])]

\* C4: a /settings/save in which some field is above 180 or below 0 is
\* answered 400 and leaves the calibration unchanged, in memory and in
\* flash.
C4_SaveAllOrNothing ==
    \A t \in SaveTriples :
        (~TripleInRange(t) /\ Answered("/settings/save")
            /\ req = NumberBody(t))
        => /\ resp.code = 400
           /\ settings = before.settings
           /\ eeprom = before.eeprom

\* C5: a /servo/set whose angle is outside [0,180], or that has no angle
\* parameter, is answered 400, commands the actuator not at all and leaves
\* currentAngle unchanged.
C5_ServoSetRejects ==
    (/\ Answered("/servo/set")
     /\ \/ ~req.has
        \/ \E n \in AngleInputs : ~AngleInRange(n) /\ req.text = IntToStr(n))
    => /\ resp.code = 400
       /\ Commanded(hw) = {}
       /\ servoAngle = before.servoAngle
       /\ currentAngle = before.currentAngle

\* /servo/set?angle=200 answered while the damper is open and a fan runs
C5_Witness ==
    /\ Answered("/servo/set")
    /\ req.has
    /\ req.text = IntToStr(200)
    /\ resp = Plain(400, "Invalid angle")
    /\ relayLowState
    /\ currentAngle = settings.angleOpen

\* C6: a /servo/set with an angle N in [0,180] is answered OK, sets
\* currentAngle to N, and leaves speed, active, both relays and the
\* calibration unchanged.
C6_ServoSetBypasses ==
    \A n \in AngleInputs :
        (/\ AngleInRange(n)
         /\ Answered("/servo/set")
         /\ req.has
         /\ req.text = IntToStr(n))
        => /\ resp = Plain(200, "OK")
           /\ currentAngle = n
           /\ servoAngle = n
           /\ ventSpeed = before.ventSpeed
           /\ isVentActive = before.isVentActive
           /\ relayLowState = before.relayLowState
           /\ relayMediumState = before.relayMediumState
           /\ pinLow = before.pinLow
           /\ pinMedium = before.pinMedium
           /\ settings = before.settings
           /\ eeprom = before.eeprom

\* /servo/set?angle=90 answered while the system is off and the damper was
\* elsewhere
C6_Witness ==
    /\ Answered("/servo/set")
    /\ req.has
    /\ req.text = IntToStr(90)
    /\ before.currentAngle # 90
    /\ currentAngle = 90
    /\ ventSpeed = "off"
    /\ ~isVentActive

\* requests the idempotence property is about: the four speed commands and
\* /servo/set with a valid angle
IdempotentRequest(r) ==
    \/ r.path \in {"/vent/low", "/vent/medium", "/vent/max", "/vent/off"}
    \/ /\ r.path = "/servo/set"
       /\ r.has
       /\ \E n \in AngleInputs : AngleInRange(n) /\ r.text = IntToStr(n)

\* C7: when a speed command or a valid /servo/set is issued twice in a row,
\* the status after the second answer is the status after the first.
C7_Idempotent ==
    (pc = "idle" /\ repeat /\ IdempotentRequest(req))
    => StatusJson = StatusOf(before)

\* /vent/max answered for the second time in a row
C7_Witness ==
    /\ pc = "idle"
    /\ repeat
    /\ req.path = "/vent/max"
    /\ relayLowState
    /\ relayMediumState

FanOn == pinLow = "LOW" \/ pinMedium = "LOW"

\* C8 as stated: in every reachable state, whenever a relay is energized
\* the angle last commanded to the actuator is the open angle.
C8_DamperOpenWhileFanRuns == FanOn => servoAngle = settings.angleOpen

\* C8, amended: whenever a relay is energized and no /relay/toggle, no
\* accepted /servo/set and no accepted /settings/save has been served since
\* a speed command last commanded the actuator, the angle last commanded to
\* the actuator is the open angle.  This holds at every step, also inside
\* the speed transitions.
C8_DamperOpenUnlessBypassed ==
    (FanOn /\ ~bypassed) => servoAngle = settings.angleOpen

\* inside /vent/low issued at max after the damper was moved by hand: the
\* actuator is back at the open angle, the medium relay is still on
C8_Witness ==
    /\ pc = "relays"
    /\ req.path = "/vent/low"
    /\ before.servoAngle # settings.angleOpen
    /\ pinMedium = "LOW"
    /\ ~bypassed

\* C9: once the calibration has been loaded, each of its three fields lies
\* in [0,180], whatever flash held at boot and whatever was saved since.
C9_CalibrationInRange ==
    pc # "setup" =>
        /\ AngleInRange(settings.angleOpen)
        /\ AngleInRange(settings.angleClose)
        /\ AngleInRange(settings.anglePark)

\* requests are served with a flash record that a power loss tore: one word
\* erased, another in range
C9_Witness ==
    /\ pc = "idle"
    /\ eeprom \notin EepromImages
    /\ eeprom.angleOpen = 0 - 1
    /\ AngleInRange(eeprom.anglePark)
    /\ settings.angleOpen = 180

\* C10: when power is lost at a quiescent point, the calibration after the
\* reboot is the calibration before the loss, and both relays are
\* de-energized, speed is off and active is false; an accepted
\* /settings/save is answered only with flash holding the new calibration.
C10_PowerLoss ==
    /\ (pc = "idle" /\ req = NoReq /\ preLoss.quiescent)
       => /\ settings = preLoss.settings
          /\ relayLowState = FALSE
          /\ relayMediumState = FALSE
          /\ pinLow = "HIGH"
          /\ pinMedium = "HIGH"
          /\ ventSpeed = "off"
          /\ isVentActive = FALSE
    /\ (Answered("/settings/save") /\ resp.code = 200)
       => eeprom = settings

\* rebooted after a loss at max speed with a calibration that a save changed
C10_Witness ==
    /\ pc = "idle"
    /\ req = NoReq
    /\ preLoss.quiescent
    /\ preLoss.ventSpeed = "max"
    /\ settings.angleClose = 5
    /\ settings.angleOpen = 0

Booting == pc \in {"setup", "startup", "startup_opened", "startup_closed",
                   "network"}

\* the angles given to servo.write in log, in order
RECURSIVE AnglesOf(_)
AnglesOf(log) ==
    IF log = <<>> THEN <<>>
    ELSE (IF Head(log).op = "servo.write" THEN <<Head(log).angle>> ELSE <<>>)
         \o AnglesOf(Tail(log))

\* C11: no request is taken while the boot is under way; when the HTTP
\* surface comes up the actuator has been sent to the open, the close and
\* the park angle in this order; and the first request served finds
\* currentAngle at the park angle, both relays de-energized, speed off and
\* active false.
C11_BootBeforeRequests ==
    /\ Booting => (req = NoReq /\ resp = NoResp)
    /\ (pc = "idle" /\ req = NoReq)
       => AnglesOf(hw) = <<settings.angleOpen, settings.angleClose,
                           settings.anglePark>>
    /\ (pc = "handler" /\ resp = NoResp)
       => /\ before.currentAngle = before.settings.anglePark
          /\ before.servoAngle = before.settings.anglePark
          /\ before.relayLowState = FALSE
          /\ before.relayMediumState = FALSE
          /\ before.pinLow = "HIGH"
          /\ before.pinMedium = "HIGH"
          /\ before.ventSpeed = "off"
          /\ before.isVentActive = FALSE

\* the first request after a boot from erased flash is being served
C11_Witness ==
    /\ pc = "handler"
    /\ resp = NoResp
    /\ req.path = "/status"
    /\ eeprom.anglePark = 0 - 1
    /\ before.currentAngle = 32

\* C12: the Off transition switches both relays off, sends the actuator to
\* the close angle, waits, sends the actuator to the park angle, and only
\* then answers; during the wait nothing has been answered.
C12_OffOrder ==
    /\ (pc = "settle")
       => /\ req.path = "/vent/off"
          /\ hw = <<digitalWrite("relayPinLow", "HIGH"),
                    digitalWrite("relayPinMedium", "HIGH"),
                    servoWrite(settings.angleClose), delay(2000)>>
    /\ Answered("/vent/off")
       => hw = <<digitalWrite("relayPinLow", "HIGH"),
                 digitalWrite("relayPinMedium", "HIGH"),
                 servoWrite(settings.angleClose), delay(2000),
                 servoWrite(settings.anglePark), send(200)>>

\* /vent/off issued at medium speed is in its wait
C12_Witness ==
    /\ pc = "settle"
    /\ before.ventSpeed = "medium"
    /\ before.pinMedium = "LOW"
    /\ pinMedium = "HIGH"
    /\ servoAngle = settings.angleClose

\* C13: a request is taken only when no handler is running; from inside the
\* Off transition the only step, short of a power loss, is the end of that
\* transition; and a /status answer is rendered from the state in which
\* its request was taken, never from the state inside an Off transition.
C13_NonReentrant ==
    [][/\ (pc' = "handler") => (pc = "idle")
       /\ (pc = "settle" /\ pc' # "setup")
          => /\ pc' = "idle"
             /\ req' = req
             /\ req.path = "/vent/off"
             /\ resp' = Plain(200, "OK")
             /\ currentAngle' = settings.anglePark
       /\ (pc = "handler" /\ req.path = "/status" /\ pc' = "idle")
          => resp'.json = StatusOf(before)]_vars

\* inside the Off transition: speed off, damper at the close angle, which is
\* not the park angle
C13_Witness ==
    /\ pc = "settle"
    /\ req.path = "/vent/off"
    /\ ventSpeed = "off"
    /\ before.ventSpeed = "max"
    /\ currentAngle = settings.angleClose
    /\ currentAngle # settings.anglePark

\* requests with a missing or invalid parameter or body field
Malformed(r) ==
    \/ /\ r.path = "/servo/set"
       /\ (~r.has \/ r.text = <<"a", "b", "c">>)
    \/ /\ r.path = "/settings/save"
       /\ (~r.has \/ r.text \in MalformedBodies)

\* C14: a request with a missing or invalid parameter or body field is
\* answered 400 and changes nothing.
C14_MalformedRejected ==
    (pc = "idle" /\ Malformed(req))
    => /\ resp.code = 400
       /\ Machine = before

\* C15: active is true exactly when speed is not off.
C15_ActiveIffSpeed == isVentActive <=> (ventSpeed # "off")

\* /relay/toggle answered, issued at low speed
C15_Witness ==
    /\ Answered("/relay/toggle")
    /\ before.ventSpeed = "low"
    /\ before.isVentActive
    /\ ~isVentActive

\* C16: whenever a request can be served, currentAngle is the angle last
\* commanded to the actuator; the request served last commanded the
\* actuator last to the angle it recorded, and it did not change
\* currentAngle without commanding the actuator.
C16_AngleMirrorsActuator ==
    pc = "idle" =>
        /\ currentAngle = servoAngle
        /\ AnglesOf(hw) # <<>>
           => AnglesOf(hw)[Len(AnglesOf(hw))] = currentAngle
        /\ (req # NoReq /\ currentAngle # before.currentAngle)
           => AnglesOf(hw) # <<>>

\* /servo/set?angle=90 answered while a fan runs and the damper was open
C16_Witness ==
    /\ Answered("/servo/set")
    /\ req.text = IntToStr(90)
    /\ relayMediumState
    /\ before.currentAngle = settings.angleOpen
    /\ servoAngle = 90

\* C17: /relay/toggle issued with both relays de-energized energizes both,
\* the relay pattern of max, and answers "1"; issued with a relay energized
\* it de-energizes both and answers "0".
C17_Toggle ==
    Answered("/relay/toggle") =>
        IF ~before.relayLowState /\ ~before.relayMediumState
        THEN /\ relayLowState /\ relayMediumState
             /\ pinLow = "LOW" /\ pinMedium = "LOW"
             /\ StatusJson.relayLow = "true"
             /\ StatusJson.relayMedium = "true"
             /\ resp = Plain(200, "1")
        ELSE /\ ~relayLowState /\ ~relayMediumState
             /\ pinLow = "HIGH" /\ pinMedium = "HIGH"
             /\ resp = Plain(200, "0")

\* /relay/toggle answered "0", issued with the medium relay alone energized
C17_Witness ==
    /\ Answered("/relay/toggle")
    /\ before.relayMediumState
    /\ ~before.relayLowState
    /\ resp = Plain(200, "0")

\* C18 as stated: the ventSpeed that /status reports after a /relay/toggle
\* is the one it reported before.
C18_ToggleKeepsSpeed ==
    Answered("/relay/toggle") => StatusJson.ventSpeed = StatusOf(before).ventSpeed

\* C18, amended: /relay/toggle does update the speed bookkeeping; after it
\* /status reports ventSpeed "max" and ventActive true when it energized
\* the relays, ventSpeed "off" and ventActive false when it de-energized
\* them, which is never the speed reported before.
C18_ToggleSetsSpeed ==
    Answered("/relay/toggle") =>
        /\ StatusJson.ventSpeed
             = (IF before.relayLowState \/ before.relayMediumState
                THEN "off" ELSE "max")
        /\ StatusJson.ventActive
             = (IF before.relayLowState \/ before.relayMediumState
                THEN "false" ELSE "true")
        /\ StatusJson.ventSpeed # StatusOf(before).ventSpeed

\* /relay/toggle answered, issued after boot: the speed went from off to max
C18_Witness ==
    /\ Answered("/relay/toggle")
    /\ StatusOf(before).ventSpeed = "off"
    /\ StatusJson.ventSpeed = "max"
    /\ before.currentAngle = settings.anglePark

\* C19: right after the load, each field of the calibration is the stored
\* word when that word lies in [0,180] and the field's own default (180, 0,
\* 32) when it does not, whatever the other words are.
C19_LoadFieldByField ==
    pc = "startup" =>
        /\ settings.angleOpen
             = (IF AngleInRange(eeprom.angleOpen)
                THEN eeprom.angleOpen ELSE 180)
        /\ settings.angleClose
             = (IF AngleInRange(eeprom.angleClose)
                THEN eeprom.angleClose ELSE 0)
        /\ settings.anglePark
             = (IF AngleInRange(eeprom.anglePark)
                THEN eeprom.anglePark ELSE 32)

\* loaded from a record with one word in range and two out of range
C19_Witness ==
    /\ pc = "startup"
    /\ eeprom.angleOpen = 200
    /\ eeprom.angleClose = 5
    /\ eeprom.anglePark = 300
    /\ settings.angleClose = 5

\* C20: once setup() has driven the pins, for each relay the tracked state
\* is true exactly when its pin is driven low and false exactly when it is
\* driven high.
C20_ActiveLow ==
    pc # "setup" =>
        /\ relayLowState <=> (pinLow = "LOW")
        /\ ~relayLowState <=> (pinLow = "HIGH")
        /\ relayMediumState <=> (pinMedium = "LOW")
        /\ ~relayMediumState <=> (pinMedium = "HIGH")

\* /vent/low answered, issued at medium speed: the pins have swapped
C20_Witness ==
    /\ Answered("/vent/low")
    /\ before.pinMedium = "LOW"
    /\ before.pinLow = "HIGH"
    /\ pinLow = "LOW"
    /\ pinMedium = "HIGH"

\* a handler is between its dispatch and its server.send
Running == pc \in {"handler", "relays", "settle", "save_commit"}

\* the request taken last has been answered and loop() can take the next
Acknowledged ==
    /\ pc = "idle"
    /\ req # NoReq
    /\ hw # <<>>
    /\ hw[Len(hw)] = send(resp.code)

\* C21: a handler that has begun, at any of its steps, the settle wait of
\* /vent/off included, leads to that same request being answered with the
\* dispatcher idle again; only a loss of power, which restarts setup(), ends
\* it otherwise.
C21_RunsToCompletion ==
    \A r \in LiveRequests :
        (Running /\ req = r) ~> ((Acknowledged /\ req = r) \/ pc = "setup")

\* /vent/off, issued at max speed, has been answered after its settle wait
C21_Witness ==
    /\ Acknowledged
    /\ req.path = "/vent/off"
    /\ before.ventSpeed = "max"
    /\ delay(2000) \in {hw[i] : i \in 1..Len(hw)}

SpeedPaths == {"/vent/low", "/vent/medium", "/vent/max"}

\* C22: at every step of a low, medium or max transition, each relay output
\* the transition has driven to energized was driven after the transition's
\* command of the actuator to the open angle, and a relay the transition
\* has newly energized is on only with the actuator at the open angle.
C22_OpenBeforeRelays ==
    (req.path \in SpeedPaths /\ pc \in {"handler", "relays", "idle"}) =>
        /\ \A i \in DOMAIN hw :
             (hw[i].op = "digitalWrite" /\ hw[i].level = "LOW")
             => \E j \in 1..(i - 1) : hw[j] = servoWrite(settings.angleOpen)
        /\ (\/ relayLowState /\ ~before.relayLowState
            \/ relayMediumState /\ ~before.relayMediumState)
           => /\ servoAngle = settings.angleOpen
              /\ servoWrite(settings.angleOpen) \in {hw[i] : i \in DOMAIN hw}

\* /vent/max, issued with the damper parked, has both relays newly energized
C22_Witness ==
    /\ req.path = "/vent/max"
    /\ pc = "idle"
    /\ relayLowState /\ ~before.relayLowState
    /\ relayMediumState /\ ~before.relayMediumState
    /\ before.currentAngle = settings.anglePark
    /\ hw[1] = servoWrite(settings.angleOpen)

\* C23: whenever a request can be served, the speed and the relay pair
\* determine each other: off is (off, off), low is (on, off), medium is
\* (off, on), max is (on, on), in the tracked states, on the pins and in
\* what /status reports.
C23_SpeedMirrorsRelays ==
    pc = "idle" =>
        /\ (ventSpeed = "off") <=> (~relayLowState /\ ~relayMediumState)
        /\ (ventSpeed = "low") <=> (relayLowState /\ ~relayMediumState)
        /\ (ventSpeed = "medium") <=> (~relayLowState /\ relayMediumState)
        /\ (ventSpeed = "max") <=> (relayLowState /\ relayMediumState)
        /\ (pinLow = "LOW") <=> (ventSpeed \in {"low", "max"})
        /\ (pinMedium = "LOW") <=> (ventSpeed \in {"medium", "max"})
        /\ StatusJson.relayLow = BoolToStr(StatusJson.ventSpeed \in {"low", "max"})
        /\ StatusJson.relayMedium
             = BoolToStr(StatusJson.ventSpeed \in {"medium", "max"})

\* /relay/toggle answered, issued at low speed
C23_Witness ==
    /\ Answered("/relay/toggle")
    /\ before.ventSpeed = "low"
    /\ before.relayLowState
    /\ ~before.relayMediumState
    /\ ventSpeed = "off"

\* C24: at every step of a /settings/save, accepted or refused, no actuator
\* command and no relay output has been issued and currentAngle, the speed,
\* the active flag and both relay states are those of before the request;
\* so an accepted save that changes the open angle while a speed is active
\* and the damper is open leaves currentAngle at the old open angle.
C24_SaveMovesNothing ==
    (req.path = "/settings/save" /\ pc \in {"handler", "save_commit", "idle"})
    => /\ \A i \in DOMAIN hw : hw[i].op \notin {"servo.write", "digitalWrite"}
       /\ currentAngle = before.currentAngle
       /\ servoAngle = before.servoAngle
       /\ ventSpeed = before.ventSpeed
       /\ isVentActive = before.isVentActive
       /\ relayLowState = before.relayLowState
       /\ relayMediumState = before.relayMediumState
       /\ pinLow = before.pinLow
       /\ pinMedium = before.pinMedium
       /\ (/\ pc = "idle"
           /\ resp.code = 200
           /\ isVentActive
           /\ before.currentAngle = before.settings.angleOpen
           /\ settings.angleOpen # before.settings.angleOpen)
          => /\ currentAngle = before.settings.angleOpen
             /\ currentAngle # settings.angleOpen

\* a save answered 200 at medium speed with the damper open has changed the
\* open angle and committed it
C24_Witness ==
    /\ Answered("/settings/save")
    /\ resp.code = 200
    /\ ventSpeed = "medium"
    /\ before.currentAngle = before.settings.angleOpen
    /\ settings.angleOpen # before.settings.angleOpen
    /\ eeprom.angleOpen = settings.angleOpen
    /\ currentAngle # settings.angleOpen

====
